---- MODULE Spec2Model ----
(***************************************************************************)
(* A model of @cto.af/utils (src/src/index.ts, lines 88-278): errCode,     *)
(* isCI, promiseWithResolvers, nameSet, assertDisjoint and select.         *)
(*                                                                         *)
(* JavaScript values are records [t, v]: t is the typeof-like tag and v    *)
(* the payload (an object id for a reference, the number for a number, a   *)
(* number naming the string for a string, 0 naming the empty string).      *)
(* Objects live in a heap, a function from object ids to cells, so that    *)
(* aliasing and mutation are visible.                                      *)
(***************************************************************************)
EXTENDS Integers, Sequences, FiniteSets, TLC

\* The most selector arguments of one select call.
MaxArgs == 2
\* The longest key array passed to select as a selector.
MaxLen == 1
\* The most collections of one assertDisjoint call.
MaxSets == 2
\* The most elements of one collection passed to assertDisjoint.
MaxItems == 2
\* The most calls made to the resolve and reject handles of one promise.
MaxCalls == 3

\* Property names, in the order Object.keys / Object.entries lists them.
KeySeq == <<"a", "b">>
Keys == {KeySeq[i] : i \in 1..Len(KeySeq)}
\* Property values.
Values == {1, 2}

VARIABLES
  \* select
  heap,      \* object id -> cell
  heap0,     \* the heap as it was when select was called
  obj,       \* the source argument
  passed,    \* the selector arguments as the caller passed them
  defaults,  \* the parameter defaults
  args,      \* the rest parameter args
  sets,      \* the local sets (object ids of Set cells)
  res,       \* the local res (object ids of the buckets)
  entries,   \* Object.entries(obj), <<key, value>> pairs
  idx,       \* entries already partitioned
  written,   \* the property writes of the partition loop, <<bucket, key, value>>
  pc,        \* position in select
  \* assertDisjoint
  adSets,    \* the arguments
  adS,       \* arguments already iterated
  adIt,      \* the local it
  adI,       \* elements of it already visited
  seen,      \* the local seen
  adPc,      \* position in assertDisjoint
  \* errCode
  ecE,       \* the argument e
  ecCode,    \* the argument code
  ecRet,     \* the return value
  ecPc,      \* position in errCode
  \* isCI
  env,       \* process.env
  env0,      \* process.env as it was when isCI was called
  opts,      \* the argument opts
  ciRet,     \* the return value
  ciPc,      \* position in isCI
  \* promiseWithResolvers
  pState,    \* the promise's state
  pValue,    \* the promise's value or reason
  alreadyResolved, \* the flag the promise's resolve and reject share
  job,       \* the pending thenable job of the promise, if any
  callLog    \* the calls made to the handles, <<handle, argument>>

selVars == <<heap, heap0, obj, passed, defaults, args, sets, res, entries, idx,
             written, pc>>
adVars == <<adSets, adS, adIt, adI, seen, adPc>>
ecVars == <<ecE, ecCode, ecRet, ecPc>>
ciVars == <<env, env0, opts, ciRet, ciPc>>
pVars == <<pState, pValue, alreadyResolved, job, callLog>>
vars == <<selVars, adVars, ecVars, ciVars, pVars>>

----------------------------------------------------------------------------
\* JavaScript values and cells

Undefined == [t |-> "undefined", v |-> 0]
Null == [t |-> "null", v |-> 0]
Str(n) == [t |-> "string", v |-> n]
Num(n) == [t |-> "number", v |-> n]
Ref(id) == [t |-> "ref", v |-> id]

EmptyProps == [k \in {} |-> 0]
ObjCell(p) == [cls |-> "Object", props |-> p, items |-> <<>>, elems |-> {}]
ArrCell(s) == [cls |-> "Array", props |-> EmptyProps, items |-> s, elems |-> {}]
SetCell(S) == [cls |-> "Set", props |-> EmptyProps, items |-> <<>>, elems |-> S]

Range(s) == {s[i] : i \in 1..Len(s)}
Max(S) == CHOOSE n \in S : \A m \in S : m <= n
SeqsUpTo(S, n) == UNION {[1..m -> S] : m \in 0..n}
AllProps == UNION {[D -> Values] : D \in SUBSET Keys}

\* ToBoolean, as `!a` and `!obj` use it.
Truthy(val) ==
  CASE val.t = "ref" -> TRUE
    [] val.t \in {"undefined", "null"} -> FALSE
    [] OTHER -> val.v # 0

\* typeof a === 'object' (true of null too).
TypeofObject(val) == val.t \in {"ref", "null"}

IsInstanceSet(h, val) == val.t = "ref" /\ h[val.v].cls = "Set"
IsArray(h, val) == val.t = "ref" /\ h[val.v].cls = "Array"

\* A fresh object id.
NewId(h) == Max(DOMAIN h \cup {0}) + 1

\* Object.keys(o), in property order.
ObjectKeys(cell) == SelectSeq(KeySeq, LAMBDA k : k \in DOMAIN cell.props)

\* nameSet(defaults): new Set(Object.keys(defaults)).
nameSet(cell) == SetCell(Range(ObjectKeys(cell)))

\* Faulty variant of ObjectAssign: nothing is copied to the target.
ObjectAssignNothing(target, source) == target

\* Object.assign(target, source): the target cell with source's own properties
\* copied over it.
ObjectAssign(target, source) ==
  [target EXCEPT !.props =
     [k \in DOMAIN target.props \cup DOMAIN source.props |->
        IF k \in DOMAIN source.props THEN source.props[k] ELSE target.props[k]]]

\* o[k] = v
SetProp(cell, k, v) ==
  [cell EXCEPT !.props =
     [j \in DOMAIN cell.props \cup {k} |-> IF j = k THEN v ELSE cell.props[j]]]

----------------------------------------------------------------------------
\* select(obj, defaults, ...args)

\* The cells a caller can pass as a selector, and the non-selectors.
SelectorCells ==
  {ArrCell(s) : s \in SeqsUpTo(Keys, MaxLen)}
    \cup {SetCell(S) : S \in SUBSET Keys}
    \cup {ObjCell(p) : p \in AllProps}
NonSelectors == {Null, Undefined, Str(3), Num(1)}
SourceCells == {ObjCell(p) : p \in AllProps}

\* An argument is described by a cell (an object, which gets an id) or by a
\* primitive value.
IsCell(d) == "cls" \in DOMAIN d

SelectIdle ==
  /\ heap = <<>> /\ heap0 = <<>> /\ obj = Undefined /\ passed = <<>>
  /\ defaults = Undefined /\ args = <<>> /\ sets = <<>> /\ res = <<>>
  /\ entries = <<>> /\ idx = 0 /\ written = <<>> /\ pc = "idle"

\* The caller's objects get the ids 1 (the source) and j + 1 (selector j).
SelectCalled ==
  \E src \in SourceCells \cup {Null, Undefined},
     sel \in SeqsUpTo(SelectorCells \cup NonSelectors, MaxArgs) :
    LET ds == <<src>> \o sel
        ids == {i \in 1..Len(ds) : IsCell(ds[i])}
        h == [i \in ids |-> ds[i]]
        val(i) == IF i \in ids THEN Ref(i) ELSE ds[i]
    IN /\ heap = h
       /\ heap0 = h
       /\ obj = val(1)
       /\ passed = [j \in 1..Len(sel) |-> val(j + 1)]
       /\ defaults = IF Len(sel) >= 1 THEN val(2) ELSE Undefined
       /\ args = [j \in 1..(Len(sel) - 1) |-> val(j + 2)]
       /\ sets = <<>>
       /\ res = <<>>
       /\ entries = <<>>
       /\ idx = 0
       /\ written = <<>>
       /\ pc = "start"

\* if (defaults !== undefined) { args.unshift(defaults); }
Unshift ==
  /\ pc = "start"
  /\ args' = IF defaults # Undefined THEN <<defaults>> \o args ELSE args
  /\ pc' = "map"
  /\ UNCHANGED <<heap, heap0, obj, passed, defaults, sets, res, entries, idx, written>>
  /\ UNCHANGED <<adVars, ecVars, ciVars, pVars>>

\* Faulty variant of MapCallback: a value that is no array, Set or object
\* is taken as an empty key list instead of throwing.
MapCallbackLenient(h, a) ==
  LET ret == NewId(h)
      h1 == (ret :> ObjCell(EmptyProps)) @@ h
  IN IF IsInstanceSet(h, a)
       THEN [threw |-> FALSE, heap |-> h1, set |-> a.v, bucket |-> ret]
     ELSE IF IsArray(h, a)
       THEN [threw |-> FALSE,
             heap |-> ((ret + 1) :> SetCell(Range(h[a.v].items))) @@ h1,
             set |-> ret + 1, bucket |-> ret]
     ELSE IF ~Truthy(a) \/ ~TypeofObject(a)
       THEN [threw |-> FALSE, heap |-> ((ret + 1) :> SetCell({})) @@ h1,
             set |-> ret + 1, bucket |-> ret]
     ELSE [threw |-> FALSE,
           heap |-> ((ret + 1) :> nameSet(h[a.v])) @@
                    [h1 EXCEPT ![ret] = ObjectAssign(h1[ret], h[a.v])],
           set |-> ret + 1, bucket |-> ret]

\* Faulty variant of MapCallback: Object.assign(a, ret) instead of
\* Object.assign(ret, a), so the bucket is the defaults object itself.
MapCallbackAlias(h, a) ==
  LET ret == NewId(h)
      h1 == (ret :> ObjCell(EmptyProps)) @@ h
  IN IF IsInstanceSet(h, a)
       THEN [threw |-> FALSE, heap |-> h1, set |-> a.v, bucket |-> ret]
     ELSE IF IsArray(h, a)
       THEN [threw |-> FALSE,
             heap |-> ((ret + 1) :> SetCell(Range(h[a.v].items))) @@ h1,
             set |-> ret + 1, bucket |-> ret]
     ELSE IF ~Truthy(a) \/ ~TypeofObject(a)
       THEN [threw |-> TRUE, heap |-> h1, set |-> 0, bucket |-> 0]
     ELSE [threw |-> FALSE,
           heap |-> ((ret + 1) :> nameSet(h[a.v])) @@
                    [h1 EXCEPT ![a.v] = ObjectAssign(h[a.v], h1[ret])],
           set |-> ret + 1, bucket |-> a.v]

\* One call of the args.map callback: its effect on the heap, on sets and
\* its return value, or a throw.
MapCallback(h, a) ==
  LET ret == NewId(h)
      h1 == (ret :> ObjCell(EmptyProps)) @@ h
  IN IF IsInstanceSet(h, a)
       THEN [threw |-> FALSE, heap |-> h1, set |-> a.v, bucket |-> ret]
     ELSE IF IsArray(h, a)
       THEN [threw |-> FALSE,
             heap |-> ((ret + 1) :> SetCell(Range(h[a.v].items))) @@ h1,
             set |-> ret + 1, bucket |-> ret]
     ELSE IF ~Truthy(a) \/ ~TypeofObject(a)
       THEN [threw |-> TRUE, heap |-> h1, set |-> 0, bucket |-> 0]
     ELSE [threw |-> FALSE,
           heap |-> ((ret + 1) :> nameSet(h[a.v])) @@
                    [h1 EXCEPT ![ret] = ObjectAssign(h1[ret], h[a.v])],
           set |-> ret + 1, bucket |-> ret]

\* args.map(a => ...), one element at a time.  The mapped array is complete
\* only after the last element; a throw abandons it.
MapStep ==
  /\ pc = "map"
  /\ Len(res) < Len(args)
  /\ LET r == MapCallback(heap, args[Len(res) + 1])
     IN /\ heap' = r.heap
        /\ IF r.threw
             THEN /\ pc' = "thrown"
                  /\ UNCHANGED <<sets, res>>
             ELSE /\ pc' = "map"
                  /\ sets' = Append(sets, r.set)
                  /\ res' = Append(res, r.bucket)
  /\ UNCHANGED <<heap0, obj, passed, defaults, args, entries, idx, written>>
  /\ UNCHANGED <<adVars, ecVars, ciVars, pVars>>

\* Faulty variant of PushLeftovers: the leftovers bucket is pushed only when
\* there is a source.
PushLeftoversIfSource ==
  /\ pc = "map"
  /\ Len(res) = Len(args)
  /\ LET leftovers == NewId(heap)
     IN /\ heap' = (leftovers :> ObjCell(EmptyProps)) @@ heap
        /\ res' = IF Truthy(obj) THEN Append(res, leftovers) ELSE res
  /\ pc' = "check"
  /\ UNCHANGED <<heap0, obj, passed, defaults, args, sets, entries, idx, written>>
  /\ UNCHANGED <<adVars, ecVars, ciVars, pVars>>

\* const leftovers = Object.create(null); res.push(leftovers);
PushLeftovers ==
  /\ pc = "map"
  /\ Len(res) = Len(args)
  /\ LET leftovers == NewId(heap)
     IN /\ heap' = (leftovers :> ObjCell(EmptyProps)) @@ heap
        /\ res' = Append(res, leftovers)
  /\ pc' = "check"
  /\ UNCHANGED <<heap0, obj, passed, defaults, args, sets, entries, idx, written>>
  /\ UNCHANGED <<adVars, ecVars, ciVars, pVars>>

\* if (!obj) { return res; }
ReturnNoSource ==
  /\ pc = "check"
  /\ ~Truthy(obj)
  /\ pc' = "returned"
  /\ UNCHANGED <<heap, heap0, obj, passed, defaults, args, sets, res, entries, idx, written>>
  /\ UNCHANGED <<adVars, ecVars, ciVars, pVars>>

\* Object.entries(o): the own properties, in property order.
ObjectEntries(cell) ==
  LET ks == ObjectKeys(cell) IN [i \in 1..Len(ks) |-> <<ks[i], cell.props[ks[i]]>>]

\* for (const [k, v] of Object.entries(obj)): the entries are taken once.
EnterLoop ==
  /\ pc = "check"
  /\ Truthy(obj)
  /\ entries' = ObjectEntries(heap[obj.v])
  /\ pc' = "loop"
  /\ UNCHANGED <<heap, heap0, obj, passed, defaults, args, sets, res, idx, written>>
  /\ UNCHANGED <<adVars, ecVars, ciVars, pVars>>

\* Faulty variant of ForEachSets: without the found flag the last set that
\* has the key wins.
RECURSIVE ForEachSetsLast(_, _, _, _)
ForEachSetsLast(h, ss, k, i) ==
  IF i > Len(ss) THEN 0
  ELSE LET later == ForEachSetsLast(h, ss, k, i + 1)
       IN IF later # 0 THEN later
          ELSE IF k \in h[ss[i]].elems THEN i ELSE 0

\* sets.forEach(...) with the found flag: the index of the bucket the key is
\* written to, 0 when no set has the key.
RECURSIVE ForEachSets(_, _, _, _)
ForEachSets(h, ss, k, i) ==
  IF i > Len(ss) THEN 0
  ELSE IF k \in h[ss[i]].elems THEN i
  ELSE ForEachSets(h, ss, k, i + 1)

\* Faulty variant of LoopStep: a key no set has is dropped instead of being
\* written to the leftovers.
LoopStepDropUnclaimed ==
  /\ pc = "loop"
  /\ idx < Len(entries)
  /\ LET k == entries[idx + 1][1]
         v == entries[idx + 1][2]
         i == ForEachSets(heap, sets, k, 1)
     IN IF i # 0
          THEN /\ heap' = [heap EXCEPT ![res[i]] = SetProp(@, k, v)]
               /\ written' = Append(written, <<i, k, v>>)
          ELSE UNCHANGED <<heap, written>>
  /\ idx' = idx + 1
  /\ UNCHANGED <<heap0, obj, passed, defaults, args, sets, res, entries, pc>>
  /\ UNCHANGED <<adVars, ecVars, ciVars, pVars>>

\* The body of for (const [k, v] of Object.entries(obj)).
LoopStep ==
  /\ pc = "loop"
  /\ idx < Len(entries)
  /\ LET k == entries[idx + 1][1]
         v == entries[idx + 1][2]
         i == ForEachSets(heap, sets, k, 1)
         b == IF i # 0 THEN i ELSE Len(res)
     IN /\ heap' = [heap EXCEPT ![res[b]] = SetProp(@, k, v)]
        /\ written' = Append(written, <<b, k, v>>)
  /\ idx' = idx + 1
  /\ UNCHANGED <<heap0, obj, passed, defaults, args, sets, res, entries, pc>>
  /\ UNCHANGED <<adVars, ecVars, ciVars, pVars>>

\* return res;
Return ==
  /\ pc = "loop"
  /\ idx = Len(entries)
  /\ pc' = "returned"
  /\ UNCHANGED <<heap, heap0, obj, passed, defaults, args, sets, res, entries, idx, written>>
  /\ UNCHANGED <<adVars, ecVars, ciVars, pVars>>

\* The caller, after the call, writes a new value to a property of a bucket
\* it was returned.
WriteBucket ==
  /\ pc = "returned"
  /\ \E i \in 1..Len(res), k \in Keys :
       heap' = [heap EXCEPT ![res[i]] = SetProp(@, k, Max(Values) + 1)]
  /\ pc' = "written"
  /\ UNCHANGED <<heap0, obj, passed, defaults, args, sets, res, entries, idx, written>>
  /\ UNCHANGED <<adVars, ecVars, ciVars, pVars>>

NextSelect ==
  \/ Unshift
  \/ MapStep
  \/ PushLeftovers
  \/ ReturnNoSource
  \/ EnterLoop
  \/ LoopStep
  \/ Return
  \/ WriteBucket


----------------------------------------------------------------------------
\* assertDisjoint(...sets)

\* A collection is described by its class and by its elements in iteration
\* order: the elements of an array, the elements of a Set in insertion order,
\* the own keys of an object in property order.
IsInjective(s) == \A i, j \in 1..Len(s) : s[i] = s[j] => i = j
Coll(c, s) == [cls |-> c, items |-> s]
Collections ==
  {Coll("Array", s) : s \in SeqsUpTo(Keys, MaxItems)}
    \cup {Coll(c, s) : c \in {"Set", "Object"},
                       s \in {q \in SeqsUpTo(Keys, MaxItems) : IsInjective(q)}}
\* Arguments that are no collection: null and a number.
Malformed == {Coll("null", <<>>), Coll("number", <<>>)}

DisjointIdle ==
  /\ adSets = <<>> /\ adS = 0 /\ adIt = <<>> /\ adI = 0 /\ seen = {}
  /\ adPc = "idle"

DisjointCalled ==
  /\ adSets \in SeqsUpTo(Collections \cup Malformed, MaxSets)
  /\ adS = 0 /\ adIt = <<>> /\ adI = 0 /\ seen = {}
  /\ adPc = "for"

\* The head of for (const s of sets): it is chosen from the class of s, and
\* anything else throws new Error('Invalid set').
ChooseIterable ==
  /\ adPc = "for"
  /\ adS < Len(adSets)
  /\ LET s == adSets[adS + 1]
     IN IF s.cls = "Array" \/ s.cls = "Set" \/ s.cls = "Object"
          THEN /\ adIt' = s.items
               /\ adPc' = "iter"
          ELSE /\ adIt' = adIt
               /\ adPc' = "error"
  /\ adI' = 0
  /\ UNCHANGED <<adSets, adS, seen>>
  /\ UNCHANGED <<selVars, ecVars, ciVars, pVars>>

\* assert(!seen.has(i)); seen.add(i);
VisitElement ==
  /\ adPc = "iter"
  /\ adI < Len(adIt)
  /\ LET i == adIt[adI + 1]
     IN IF i \in seen
          THEN /\ adPc' = "assertion"
               /\ UNCHANGED <<adI, seen>>
          ELSE /\ adPc' = "iter"
               /\ adI' = adI + 1
               /\ seen' = seen \cup {i}
  /\ UNCHANGED <<adSets, adS, adIt>>
  /\ UNCHANGED <<selVars, ecVars, ciVars, pVars>>

EndIterable ==
  /\ adPc = "iter"
  /\ adI = Len(adIt)
  /\ adS' = adS + 1
  /\ adPc' = "for"
  /\ UNCHANGED <<adSets, adIt, adI, seen>>
  /\ UNCHANGED <<selVars, ecVars, ciVars, pVars>>

ReturnDisjoint ==
  /\ adPc = "for"
  /\ adS = Len(adSets)
  /\ adPc' = "returned"
  /\ UNCHANGED <<adSets, adS, adIt, adI, seen>>
  /\ UNCHANGED <<selVars, ecVars, ciVars, pVars>>

NextDisjoint ==
  \/ ChooseIterable
  \/ VisitElement
  \/ EndIterable
  \/ ReturnDisjoint

----------------------------------------------------------------------------
\* isErrno(e) and errCode(e, code)

\* NaN is a number that is not === to itself.
NaN == [t |-> "nan", v |-> 0]
Bool(b) == [t |-> "boolean", v |-> IF b THEN 1 ELSE 0]

Typeof(val) ==
  CASE val.t \in {"number", "nan"} -> "number"
    [] val.t \in {"ref", "null"} -> "object"
    [] OTHER -> val.t

\* x === y on primitives
StrictEq(x, y) == x.t # "nan" /\ x = y

\* The strings 'ENOENT' and 'EEXIST' are Str(1) and Str(2) here.
CodeValues == {Str(1), Str(2), Num(-2), Num(-17), NaN, Null, Undefined, Bool(TRUE)}

\* The argument e: null, undefined, or an object that is or is not an Error
\* and has or has not an own property code; code and errno are what e.code
\* and e.errno read (undefined when absent).
ErrValues ==
  {[kind |-> k, own |-> FALSE, code |-> Undefined, errno |-> Undefined] :
     k \in {"null", "undefined"}}
    \cup [kind : {"object", "error"}, own : {TRUE},
          code : {Str(1), Num(-2), Undefined}, errno : {Num(-2), NaN, Undefined}]
    \cup [kind : {"object", "error"}, own : {FALSE},
          code : {Undefined, Str(1)}, errno : {Num(-2), Undefined}]

ErrCodeIdle ==
  /\ ecE = [kind |-> "undefined", own |-> FALSE, code |-> Undefined, errno |-> Undefined]
  /\ ecCode = Undefined /\ ecRet = Undefined /\ ecPc = "idle"

ErrCodeCalled ==
  /\ ecE \in ErrValues
  /\ ecCode \in CodeValues
  /\ ecRet = Undefined
  /\ ecPc = "call"

\* Faulty variant of isErrno: the instanceof Error test is missing.
isErrnoOwnOnly(e) == e.own

\* (e instanceof Error) && Object.prototype.hasOwnProperty.call(e, 'code')
isErrno(e) == e.kind = "error" /\ e.own

\* if (!isErrno(e)) { return false; }
ErrCodeGuard ==
  /\ ecPc = "call"
  /\ IF ~isErrno(ecE)
       THEN /\ ecRet' = Bool(FALSE)
            /\ ecPc' = "returned"
       ELSE /\ ecRet' = ecRet
            /\ ecPc' = "switch"
  /\ UNCHANGED <<ecE, ecCode>>
  /\ UNCHANGED <<selVars, adVars, ciVars, pVars>>

\* switch (typeof code) { ... } throw new TypeError(...)
ErrCodeSwitch ==
  /\ ecPc = "switch"
  /\ CASE Typeof(ecCode) = "string" ->
            /\ ecRet' = Bool(StrictEq(ecE.code, ecCode))
            /\ ecPc' = "returned"
       [] Typeof(ecCode) = "number" ->
            /\ ecRet' = Bool(StrictEq(ecE.errno, ecCode))
            /\ ecPc' = "returned"
       [] OTHER ->
            /\ ecRet' = ecRet
            /\ ecPc' = "TypeError"
  /\ UNCHANGED <<ecE, ecCode>>
  /\ UNCHANGED <<selVars, adVars, ciVars, pVars>>

NextErrCode ==
  \/ ErrCodeGuard
  \/ ErrCodeSwitch

----------------------------------------------------------------------------
\* isCI(opts)

\* The environment variables isCI reads, in the order of its || chain.
EnvNames == <<"CI", "CONTINUOUS_INTEGRATION", "BUILD_NUMBER", "RUN_ID">>
\* An environment variable is unset (undefined), empty or a non-empty string.
EnvValues == {Undefined, Str(0), Str(1)}

\* opts: absent, null, or an object that has or has not the key CI.
OptsValues ==
  {[kind |-> k, has |-> FALSE, CI |-> Undefined] : k \in {"undefined", "null", "object"}}
    \cup {[kind |-> "object", has |-> TRUE, CI |-> c] :
            c \in {Bool(TRUE), Bool(FALSE), Undefined, Num(1)}}

CIIdle ==
  /\ env = <<>> /\ env0 = <<>>
  /\ opts = [kind |-> "undefined", has |-> FALSE, CI |-> Undefined]
  /\ ciRet = Undefined /\ ciPc = "idle"

CICalled ==
  /\ env \in [Range(EnvNames) -> EnvValues]
  /\ env0 = env
  /\ opts \in OptsValues
  /\ ciRet = Undefined
  /\ ciPc = "call"

\* Faulty variant of CIOverride: if (opts && opts.CI), so that CI: false
\* falls through to the environment.
CIOverrideTruthy ==
  /\ ciPc = "call"
  /\ IF opts.kind = "object" /\ Truthy(opts.CI)
       THEN /\ ciRet' = Bool(Truthy(opts.CI))
            /\ ciPc' = "returned"
       ELSE /\ ciRet' = ciRet
            /\ ciPc' = "env"
  /\ UNCHANGED <<env, env0, opts>>
  /\ UNCHANGED <<selVars, adVars, ecVars, pVars>>

\* if (opts && ('CI' in opts)) { return Boolean(opts.CI); }
CIOverride ==
  /\ ciPc = "call"
  /\ IF opts.kind = "object" /\ opts.has
       THEN /\ ciRet' = Bool(Truthy(opts.CI))
            /\ ciPc' = "returned"
       ELSE /\ ciRet' = ciRet
            /\ ciPc' = "env"
  /\ UNCHANGED <<env, env0, opts>>
  /\ UNCHANGED <<selVars, adVars, ecVars, pVars>>

\* a || b || ... || false: the first truthy operand, else false.
RECURSIVE OrChain(_, _, _)
OrChain(e, names, i) ==
  IF i > Len(names) THEN Bool(FALSE)
  ELSE IF Truthy(e[names[i]]) THEN e[names[i]]
  ELSE OrChain(e, names, i + 1)

\* return Boolean(env.CI || env.CONTINUOUS_INTEGRATION || env.BUILD_NUMBER ||
\*                env.RUN_ID || false);
CIEnvironment ==
  /\ ciPc = "env"
  /\ ciRet' = Bool(Truthy(OrChain(env, EnvNames, 1)))
  /\ ciPc' = "returned"
  /\ UNCHANGED <<env, env0, opts>>
  /\ UNCHANGED <<selVars, adVars, ecVars, pVars>>

NextCI ==
  \/ CIOverride
  \/ CIEnvironment

----------------------------------------------------------------------------
\* promiseWithResolvers(): the promise and the resolve and reject functions
\* the Promise constructor hands to its executor.

\* The promise itself, as a value passed to its own handles.
Self == Ref(0)
\* Thenables (promises) a caller can pass, by object id: what each thenable
\* will do with the callbacks given to its then().
ThenableFate ==
  (1 :> [fate |-> "fulfill", val |-> Num(1)])
    @@ (2 :> [fate |-> "reject", val |-> Num(2)])
    @@ (3 :> [fate |-> "never", val |-> Undefined])
IsThenable(val) == val.t = "ref" /\ val.v \in DOMAIN ThenableFate
\* The TypeError a promise resolved with itself is rejected with.
SelfResolutionError == [t |-> "TypeError", v |-> 0]
\* What a caller passes to resolve or reject: plain values, thenables and
\* the promise itself.
HandleValues == {Num(1), Num(2), Ref(1), Ref(2), Ref(3), Self}

PromiseIdle ==
  /\ pState = "idle" /\ pValue = Undefined /\ alreadyResolved = FALSE
  /\ job = 0 /\ callLog = <<>>

\* The state promiseWithResolvers() returns: a pending promise.  The handles
\* exist only once it has been called.
PromiseCreated ==
  /\ pState = "pending" /\ pValue = Undefined /\ alreadyResolved = FALSE
  /\ job = 0 /\ callLog = <<>>

\* Faulty variant of Resolve: the alreadyResolved flag is not consulted, so
\* a later call settles the promise again.
ResolveUnguarded ==
  /\ pState # "idle"
  /\ Len(callLog) < MaxCalls
  /\ \E x \in HandleValues :
       /\ callLog' = Append(callLog, <<"resolve", x>>)
       /\ alreadyResolved' = TRUE
       /\ job' = IF IsThenable(x) THEN x.v ELSE 0
       /\ IF x = Self
            THEN pState' = "rejected" /\ pValue' = SelfResolutionError
          ELSE IF IsThenable(x)
            THEN UNCHANGED <<pState, pValue>>
          ELSE pState' = "fulfilled" /\ pValue' = x
  /\ UNCHANGED <<selVars, adVars, ecVars, ciVars>>

\* resolve(x) with the flag already set does nothing.  Otherwise it sets the
\* flag; the promise itself rejects with a TypeError, a thenable is followed
\* by a job, anything else fulfills.
Resolve ==
  /\ pState # "idle"
  /\ Len(callLog) < MaxCalls
  /\ \E x \in HandleValues :
       /\ callLog' = Append(callLog, <<"resolve", x>>)
       /\ IF alreadyResolved
            THEN UNCHANGED <<pState, pValue, alreadyResolved, job>>
            ELSE /\ alreadyResolved' = TRUE
                 /\ IF x = Self
                      THEN /\ pState' = "rejected"
                           /\ pValue' = SelfResolutionError
                           /\ job' = job
                    ELSE IF IsThenable(x)
                      THEN /\ job' = x.v
                           /\ UNCHANGED <<pState, pValue>>
                    ELSE /\ pState' = "fulfilled"
                         /\ pValue' = x
                         /\ job' = job
  /\ UNCHANGED <<selVars, adVars, ecVars, ciVars>>

\* reject(r) with the flag already set does nothing.  Otherwise it sets the
\* flag and rejects with r as it is (a thenable is not followed).
Reject ==
  /\ pState # "idle"
  /\ Len(callLog) < MaxCalls
  /\ \E r \in HandleValues :
       /\ callLog' = Append(callLog, <<"reject", r>>)
       /\ IF alreadyResolved
            THEN UNCHANGED <<pState, pValue, alreadyResolved>>
            ELSE /\ alreadyResolved' = TRUE
                 /\ pState' = "rejected"
                 /\ pValue' = r
  /\ UNCHANGED job
  /\ UNCHANGED <<selVars, adVars, ecVars, ciVars>>

\* The job of a promise resolved with a thenable: the thenable's then() is
\* given callbacks that settle the promise, and calls one of them when the
\* thenable settles (a thenable that never settles calls none).
ThenableJob ==
  /\ job # 0
  /\ ThenableFate[job].fate # "never"
  /\ pState' = IF ThenableFate[job].fate = "fulfill" THEN "fulfilled" ELSE "rejected"
  /\ pValue' = ThenableFate[job].val
  /\ job' = 0
  /\ UNCHANGED <<alreadyResolved, callLog>>
  /\ UNCHANGED <<selVars, adVars, ecVars, ciVars>>

NextPromise ==
  \/ Resolve
  \/ Reject
  \/ ThenableJob

----------------------------------------------------------------------------
\* Specifications: one call of each function (for promiseWithResolvers, the
\* life of the promise it returned).

InitSelect == SelectCalled /\ DisjointIdle /\ ErrCodeIdle /\ CIIdle /\ PromiseIdle
InitDisjoint == SelectIdle /\ DisjointCalled /\ ErrCodeIdle /\ CIIdle /\ PromiseIdle
InitErrCode == SelectIdle /\ DisjointIdle /\ ErrCodeCalled /\ CIIdle /\ PromiseIdle
InitCI == SelectIdle /\ DisjointIdle /\ ErrCodeIdle /\ CICalled /\ PromiseIdle
InitPromise == SelectIdle /\ DisjointIdle /\ ErrCodeIdle /\ CIIdle /\ PromiseCreated

SpecSelect == InitSelect /\ [][NextSelect]_vars
SpecDisjoint == InitDisjoint /\ [][NextDisjoint]_vars
SpecErrCode == InitErrCode /\ [][NextErrCode]_vars
SpecCI == InitCI /\ [][NextCI]_vars
SpecPromise == InitPromise /\ [][NextPromise]_vars

Init == InitSelect \/ InitDisjoint \/ InitErrCode \/ InitCI \/ InitPromise
Next == NextSelect \/ NextDisjoint \/ NextErrCode \/ NextCI \/ NextPromise
Spec == Init /\ [][Next]_vars

----------------------------------------------------------------------------
\* Properties of select

\* A selector argument that is an array, a Set or an object.
IsSelector(val) == val.t = "ref"
IsDefaults(val) == val.t = "ref" /\ heap0[val.v].cls = "Object"
AllSelectors == \A j \in 1..Len(passed) : IsSelector(passed[j])
\* The key set of selector argument j, read from the caller's object.
KeySetOf(j) ==
  LET c == heap0[passed[j].v]
  IN CASE c.cls = "Set" -> c.elems
       [] c.cls = "Array" -> Range(c.items)
       [] OTHER -> DOMAIN c.props
\* What the bucket of selector argument j is seeded with.
SeedOf(j) == IF IsDefaults(passed[j]) THEN heap0[passed[j].v].props ELSE EmptyProps
\* The properties of the source and of output bucket i.
SourceProps == IF obj.t = "ref" THEN heap0[obj.v].props ELSE EmptyProps
Bucket(i) == heap[res[i]].props
BucketsWith(k) == {i \in 1..Len(res) : k \in DOMAIN Bucket(i)}
WritesOf(k) == {n \in 1..Len(written) : written[n][2] = k}
Claimers(k) == {j \in 1..Len(passed) : k \in KeySetOf(j)}
Min(S) == CHOOSE n \in S : \A m \in S : n <= m

\* C1, as stated: in the result of select every own key of the source is in
\* exactly one output bucket, whatever the selectors.
C1_ExactlyOneBucket ==
  (pc = "returned" /\ AllSelectors) =>
    \A k \in DOMAIN SourceProps : Cardinality(BucketsWith(k)) = 1

\* C1, amended: every own key of the source is written, with the source's
\* value, to exactly one output bucket; any other bucket that has the key
\* belongs to a later defaults object that has the key, and keeps its default.
C1_WrittenToExactlyOneBucket ==
  (pc = "returned" /\ AllSelectors) =>
    \A k \in DOMAIN SourceProps :
      /\ Cardinality(WritesOf(k)) = 1
      /\ \A n \in WritesOf(k) :
           LET i == written[n][1]
           IN /\ i \in BucketsWith(k)
              /\ Bucket(i)[k] = SourceProps[k]
              /\ \A j \in BucketsWith(k) \ {i} :
                   /\ i < j
                   /\ j <= Len(passed)
                   /\ IsDefaults(passed[j])
                   /\ k \in DOMAIN SeedOf(j)
                   /\ Bucket(j)[k] = SeedOf(j)[k]

\* C1's case: a key of the source that an array or Set claims first and a
\* later defaults object has too.
C1_Witness ==
  /\ pc = "returned"
  /\ Len(passed) = 2
  /\ AllSelectors
  /\ ~IsDefaults(passed[1])
  /\ IsDefaults(passed[2])
  /\ \E k \in DOMAIN SourceProps : Claimers(k) = {1, 2} /\ BucketsWith(k) = {1, 2}

\* C2: select returns one bucket per selector argument, in their order, and
\* then one leftovers bucket; without a source every bucket is as seeded and
\* the leftovers bucket is empty.
C2_OneBucketPerSelectorPlusLeftovers ==
  (pc = "returned" /\ AllSelectors) =>
    /\ Len(res) = Len(passed) + 1
    /\ Len(res) >= 1
    /\ \A i, j \in 1..Len(res) : res[i] = res[j] => i = j
    /\ \A j \in 1..Len(passed) : DOMAIN Bucket(j) \subseteq KeySetOf(j)
    /\ ~Truthy(obj) =>
         /\ \A j \in 1..Len(passed) : Bucket(j) = SeedOf(j)
         /\ Bucket(Len(res)) = EmptyProps

\* C2's case: a call without a source, with a defaults object that has keys.
C2_Witness ==
  /\ pc = "returned"
  /\ ~Truthy(obj)
  /\ Len(passed) = 2
  /\ IsDefaults(passed[1])
  /\ SeedOf(1) # EmptyProps
  /\ Len(res) = 3

\* C3: a key of the source goes, with its value, to the bucket of the first
\* selector that has it and is written to no other bucket; a key no selector
\* has goes to the leftovers, which hold nothing a selector has.
C3_FirstMatchWins ==
  (pc = "returned" /\ Truthy(obj) /\ AllSelectors) =>
    /\ \A k \in DOMAIN SourceProps :
         LET i == IF Claimers(k) # {} THEN Min(Claimers(k)) ELSE Len(res)
         IN /\ i \in BucketsWith(k)
            /\ Bucket(i)[k] = SourceProps[k]
            /\ \A n \in WritesOf(k) : written[n][1] = i
    /\ \A k \in DOMAIN Bucket(Len(res)) : Claimers(k) = {}

\* C3's case: one key that two selectors have, another that none has.
C3_Witness ==
  /\ pc = "returned"
  /\ Truthy(obj)
  /\ AllSelectors
  /\ \E k1, k2 \in DOMAIN SourceProps :
       /\ Claimers(k1) = {1, 2}
       /\ Claimers(k2) = {}
       /\ k1 \in DOMAIN Bucket(1)
       /\ k2 \in DOMAIN Bucket(Len(res))

\* C4: with a defaults object D first, the first bucket has exactly the keys
\* of D, each with the source's value if the source has the key and D's
\* otherwise; the other keys of the source are in later buckets.
C4_DefaultsMerged ==
  (pc = "returned" /\ Len(passed) >= 1 /\ IsDefaults(passed[1])) =>
    /\ DOMAIN Bucket(1) = DOMAIN SeedOf(1)
    /\ \A k \in DOMAIN SeedOf(1) :
         Bucket(1)[k] = IF k \in DOMAIN SourceProps THEN SourceProps[k]
                        ELSE SeedOf(1)[k]
    /\ \A k \in DOMAIN SourceProps \ DOMAIN SeedOf(1) :
         \E i \in 2..Len(res) : k \in DOMAIN Bucket(i) /\ Bucket(i)[k] = SourceProps[k]

\* C4's case: the source overrides one default, another default is kept,
\* and a third key is left over.
C4_Witness ==
  /\ pc = "returned"
  /\ Len(passed) = 1
  /\ IsDefaults(passed[1])
  /\ \E k1, k2 \in DOMAIN SeedOf(1) :
       /\ k1 \in DOMAIN SourceProps
       /\ SourceProps[k1] # SeedOf(1)[k1]
       /\ Bucket(1)[k1] = SourceProps[k1]
       /\ k2 \notin DOMAIN SourceProps
       /\ Bucket(1)[k2] = SeedOf(1)[k2]

\* C9, as stated: a selector argument, at any position, that is no array,
\* Set or object makes select throw before it partitions anything.
C9_ThrowsOnEveryNonSelector ==
  ~AllSelectors => (pc \in {"start", "map", "thrown"} /\ written = <<>>)

\* The selector arguments select rejects: those that are no array, Set or
\* object, but for an undefined first one.
Rejected == {j \in 1..Len(passed) : ~IsSelector(passed[j]) /\ ~(j = 1 /\ passed[j] = Undefined)}

\* C9, amended: such an argument makes select throw before it partitions
\* anything, unless it is undefined in the first position, which select
\* takes as no selector given.
C9_ThrowsOnNonSelector ==
  /\ Rejected # {} =>
       /\ pc \in {"start", "map", "thrown"}
       /\ written = <<>>
       /\ Len(res) < Min(Rejected)
  /\ pc = "thrown" => Rejected # {}
  /\ (pc = "returned" /\ Len(passed) >= 1 /\ passed[1] = Undefined) =>
       Len(res) = Len(passed)

\* C9's case: a source with keys, a selector, then a non-selector: thrown
\* after the first bucket was made.
C9_Witness ==
  /\ pc = "thrown"
  /\ DOMAIN SourceProps # {}
  /\ Len(passed) = 2
  /\ IsSelector(passed[1])
  /\ passed[2] = Null
  /\ Len(res) = 1

\* C10: select leaves the source and every selector as they were, whether
\* it returns or throws, and no bucket it returns is one of them, so that a
\* later write to a bucket changes none of them.
C10_InputsUnchanged ==
  /\ \A id \in DOMAIN heap0 : heap[id] = heap0[id]
  /\ \A i \in 1..Len(res) : res[i] \notin DOMAIN heap0

\* C10's case: a defaults object seeded a bucket, the partition wrote to it,
\* and the caller then wrote to a returned bucket.
C10_Witness ==
  /\ pc = "written"
  /\ Len(passed) >= 1
  /\ IsDefaults(passed[1])
  /\ SeedOf(1) # EmptyProps
  /\ \E n \in 1..Len(written) : written[n][1] = 1
  /\ Bucket(1) # SeedOf(1)

----------------------------------------------------------------------------
\* Properties of assertDisjoint

WellFormed == \A j \in 1..Len(adSets) : adSets[j].cls \in {"Array", "Set", "Object"}
KeysOfCollection(j) == Range(adSets[j].items)
\* Some key is in more than one collection.
Shared ==
  \E j1, j2 \in 1..Len(adSets) :
    j1 < j2 /\ KeysOfCollection(j1) \cap KeysOfCollection(j2) # {}
\* The positions <<collection, element>> of the keys an earlier collection has.
SeenEarlier ==
  {<<j, i>> \in (1..Len(adSets)) \X (1..MaxItems) :
     /\ i <= Len(adSets[j].items)
     /\ \E j1 \in 1..(j - 1) : adSets[j].items[i] \in KeysOfCollection(j1)}
Precedes(p, q) == p[1] < q[1] \/ (p[1] = q[1] /\ p[2] <= q[2])

\* C5: given well-formed collections, assertDisjoint fails with an
\* AssertionError exactly when a key is in more than one collection, at the
\* first key an earlier collection has, and returns otherwise.
C5_FailsIffShared ==
  WellFormed =>
    /\ adPc = "assertion" =>
         /\ Shared
         /\ <<adS + 1, adI + 1>> \in SeenEarlier
         /\ \A q \in SeenEarlier : Precedes(<<adS + 1, adI + 1>>, q)
    /\ adPc = "returned" => ~Shared

----------------------------------------------------------------------------
\* Properties of errCode

\* C6: for an e that is not errno-like errCode returns false whatever the
\* code; for one that is, a string code is compared with e.code, a number
\* code with e.errno, and any other code throws a TypeError.
C6_ErrCode ==
  ecPc \in {"returned", "TypeError"} =>
    IF ~(ecE.kind = "error" /\ ecE.own)
      THEN ecPc = "returned" /\ ecRet = Bool(FALSE)
    ELSE IF ecCode.t = "string"
      THEN ecPc = "returned" /\ ecRet = Bool(ecE.code = ecCode)
    ELSE IF ecCode.t = "number"
      THEN ecPc = "returned" /\ ecRet = Bool(ecE.errno = ecCode)
    ELSE IF ecCode.t = "nan"
      THEN ecPc = "returned" /\ ecRet = Bool(FALSE)
    ELSE ecPc = "TypeError"

\* C6's case: an object with an own code that is no Error, asked for the
\* code it has.
C6_Witness ==
  /\ ecPc = "returned"
  /\ ecE.kind = "object"
  /\ ecE.own
  /\ ecE.code = ecCode
  /\ ecCode.t = "string"
  /\ ecRet = Bool(FALSE)

----------------------------------------------------------------------------
\* Properties of isCI

\* C7: an override object that has the key CI decides the result, as a
\* boolean, whatever the environment; otherwise the result is true exactly
\* when one of the four variables is set and not empty.  The environment is
\* left as it was.
C7_IsCI ==
  /\ env = env0
  /\ ciPc = "returned" =>
       IF opts.kind = "object" /\ opts.has
         THEN ciRet = Bool(opts.CI \notin {Bool(FALSE), Undefined})
         ELSE ciRet = Bool(\E n \in DOMAIN env0 : env0[n] = Str(1))

\* C7's case: CI: false given while the environment says CI.
C7_Witness ==
  /\ ciPc = "returned"
  /\ opts.kind = "object"
  /\ opts.has
  /\ opts.CI = Bool(FALSE)
  /\ env0["CI"] = Str(1)
  /\ ciRet = Bool(FALSE)

----------------------------------------------------------------------------
\* Properties of promiseWithResolvers

FirstCall == callLog[1]

\* C8, as stated: the promise is pending until the first call, and the first
\* call alone settles it: fulfilled with the value passed to resolve, or
\* rejected with the reason passed to reject.
C8_FirstCallSettles ==
  IF callLog = <<>> THEN pState = "pending"
  ELSE /\ pState = IF FirstCall[1] = "resolve" THEN "fulfilled" ELSE "rejected"
       /\ pValue = FirstCall[2]

\* What the first call makes of the promise.
Outcome(call) ==
  IF call[1] = "reject" THEN <<"rejected", call[2]>>
  ELSE IF call[2] = Self THEN <<"rejected", SelfResolutionError>>
  ELSE IF IsThenable(call[2])
    THEN CASE ThenableFate[call[2].v].fate = "fulfill" ->
                <<"fulfilled", ThenableFate[call[2].v].val>>
           [] ThenableFate[call[2].v].fate = "reject" ->
                <<"rejected", ThenableFate[call[2].v].val>>
           [] OTHER -> <<"pending", Undefined>>
  ELSE <<"fulfilled", call[2]>>

\* C8, amended: the promise is pending until the first call, and the first
\* call alone decides the outcome: rejected with the reason passed to reject;
\* fulfilled with the value passed to resolve unless that value is a thenable,
\* which the promise then follows (staying pending until the thenable
\* settles), or the promise itself, which rejects it with a TypeError.  Every
\* later call is ignored.
C8_FirstCallDecides ==
  IF callLog = <<>> THEN pState = "pending" /\ ~alreadyResolved
  ELSE /\ alreadyResolved
       /\ \/ <<pState, pValue>> = Outcome(FirstCall)
          \/ /\ pState = "pending"
             /\ FirstCall[1] = "resolve"
             /\ IsThenable(FirstCall[2])
             /\ job = FirstCall[2].v

\* C8's case: resolved first with a thenable that rejects, then called
\* twice more, the promise is rejected with the thenable's reason.
C8_Witness ==
  /\ Len(callLog) = 3
  /\ FirstCall = <<"resolve", Ref(2)>>
  /\ callLog[2] = <<"reject", Num(1)>>
  /\ callLog[3] = <<"resolve", Num(1)>>
  /\ pState = "rejected"
  /\ pValue = Num(2)

====
